---- MODULE Spec2Model ----
(***************************************************************************)
(* Model of action/flow/support/manager.go: the FlowManager (preloaded     *)
(* resource flows, lazily fetched remote flows guarded by rfMu), the        *)
(* materializer, the BasicRemoteFlowProvider and the decompression helpers. *)
(*                                                                         *)
(* Strings are sequences of one-character strings, byte slices are         *)
(* sequences of numbers 0..255.  A nil *Definition is NilDef, a nil error   *)
(* is NoErr, a nil *DefinitionRep is NoRep.                                 *)
(*                                                                         *)
(* LoadResource, GetResource and the res:// branch of GetFlow touch        *)
(* rm.resFlows without a lock; they are taken as atomic steps, i.e. callers *)
(* serialize loads with reads.  A remote GetFlow call is a record in        *)
(* inflight that moves from waiting for rfMu to fetching with rfMu held.    *)
(*                                                                         *)
(* Spec is the manager under any interleaving of its operations, FairSpec  *)
(* is Spec with fetches that come back and a fair lock, and SpecFetch      *)
(* applies the provider's functions on their own, recording each           *)
(* application in probe.                                                   *)
(***************************************************************************)
EXTENDS Integers, Sequences, FiniteSets, TLC

(* ---------------------------- bounds ----------------------------------- *)
\* callers that may be inside GetFlow at the same time
NumProcs == 2
\* calls of LoadResource, GetResource and GetFlow made in one run
MaxCalls == 3

(* --------------------------- constants --------------------------------- *)
uriSchemeFile == <<"f", "i", "l", "e", ":", "/", "/">>
uriSchemeRes == <<"r", "e", "s", ":", "/", "/">>
ResPrefixLen == 6
GzipID1 == 31
GzipID2 == 139
GzipDeflate == 8
StatusErrorFloor == 300

(* ------------------------- string helpers ------------------------------ *)
\* variant: the scheme is compared with the whole string
HasPrefixExact(s, prefix) == s = prefix

HasPrefix(s, prefix) ==
    /\ Len(s) >= Len(prefix)
    /\ SubSeq(s, 1, Len(prefix)) = prefix

\* variant: the slice starts one character early
SliceFromOffByOne(s, n) == SubSeq(s, n, Len(s))

\* Go's s[n:]
SliceFrom(s, n) == SubSeq(s, n + 1, Len(s))

LowerChar(c) ==
    CASE c = "T" -> "t"
      [] c = "R" -> "r"
      [] c = "U" -> "u"
      [] c = "E" -> "e"
      [] c = "F" -> "f"
      [] c = "A" -> "a"
      [] c = "L" -> "l"
      [] c = "S" -> "s"
      [] OTHER -> c

\* variant: the header value is compared as sent
ToLowerNot(s) == s

ToLower(s) == [i \in 1..Len(s) |-> LowerChar(s[i])]

(* --------------------------- values ------------------------------------ *)
NoRep == [name |-> 0]
NoMgr == "none"
GosDefaultFactory == "gos"
CustomFactory == "custom"
NoFactory == "nil"
NilDef == [id |-> 0, rep |-> NoRep, mgr |-> NoMgr]
NoErr == [kind |-> "none", ctx |-> <<>>]

\* fmt.Errorf("... '%s', %s", key, cause): an error whose text carries key
ErrWith(kind, key) == [kind |-> kind, ctx |-> <<key>>]
\* fmt.Errorf("...: %s", cause): an error whose text carries no key
ErrBare(kind) == [kind |-> kind, ctx |-> <<>>]

(* ----------------------- decompression pipeline ------------------------ *)
\* A gzip member: the 1f 8b 08 header, the deflate body (the payload, whose
\* bytes are never GzipEnd, closed by the end-of-stream marker GzipEnd) and
\* a trailer recording the payload's size.
GzipEnd == 0
GzipBytes(d) == <<GzipID1, GzipID2, GzipDeflate>> \o d \o <<GzipEnd, Len(d)>>

\* position of the end-of-stream marker in a deflate body, 0 when it has none
EndOfStream(body) ==
    IF \E i \in 1..Len(body) : body[i] = GzipEnd
      THEN CHOOSE i \in 1..Len(body) :
               /\ body[i] = GzipEnd
               /\ \A j \in 1..(i - 1) : body[j] # GzipEnd
      ELSE 0

\* variant: what ioutil.ReadAll read is returned whether or not it failed
unzipIgnoringReadError(compressed) ==
    IF Len(compressed) = 0
      THEN [bytes |-> <<>>, err |-> "EOF"]
    ELSE IF Len(compressed) < 3
      THEN [bytes |-> <<>>, err |-> "unexpected EOF"]
    ELSE IF \/ compressed[1] # GzipID1
            \/ compressed[2] # GzipID2
            \/ compressed[3] # GzipDeflate
      THEN [bytes |-> <<>>, err |-> "gzip: invalid header"]
    ELSE LET body == SubSeq(compressed, 4, Len(compressed))
             end == EndOfStream(body)
         IN [bytes |-> IF end = 0 THEN body ELSE SubSeq(body, 1, end - 1),
             err |-> ""]

\* gzip.NewReader reads the header (lines 240-243), ioutil.ReadAll inflates
\* the body up to its end-of-stream marker and checks the trailer (244-247);
\* bytes after the trailer are read as the header of a further member.
unzip(compressed) ==
    IF Len(compressed) = 0
      THEN [bytes |-> <<>>, err |-> "EOF"]
    ELSE IF Len(compressed) < 3
      THEN [bytes |-> <<>>, err |-> "unexpected EOF"]
    ELSE IF \/ compressed[1] # GzipID1
            \/ compressed[2] # GzipID2
            \/ compressed[3] # GzipDeflate
      THEN [bytes |-> <<>>, err |-> "gzip: invalid header"]
    ELSE LET body == SubSeq(compressed, 4, Len(compressed))
             end == EndOfStream(body)
         IN IF end = 0 \/ Len(body) < end + 1
              THEN [bytes |-> <<>>, err |-> "unexpected EOF"]
            ELSE IF body[end + 1] # end - 1
              THEN [bytes |-> <<>>, err |-> "gzip: invalid checksum"]
            ELSE IF Len(body) > end + 1
              THEN [bytes |-> <<>>, err |-> "gzip: invalid header"]
            ELSE [bytes |-> SubSeq(body, 1, end - 1), err |-> ""]

\* Text encoding of bytes: two symbols of a 16-symbol alphabet per byte.
B64Base == 65
B64Radix == 16
IsB64Symbol(c) == c >= B64Base /\ c < B64Base + B64Radix

RECURSIVE Base64Encode(_)
Base64Encode(d) ==
    IF d = <<>> THEN <<>>
    ELSE <<B64Base + (d[1] \div B64Radix), B64Base + (d[1] % B64Radix)>>
            \o Base64Encode(Tail(d))

\* base64.StdEncoding.DecodeString: on corrupt input it returns the bytes
\* decoded before the corruption together with an error.
RECURSIVE Base64Decode(_)
Base64Decode(s) ==
    IF s = <<>> THEN [bytes |-> <<>>, err |-> ""]
    ELSE IF Len(s) < 2 \/ ~IsB64Symbol(s[1]) \/ ~IsB64Symbol(s[2])
      THEN [bytes |-> <<>>, err |-> "illegal base64 data"]
    ELSE LET rest == Base64Decode(SubSeq(s, 3, Len(s)))
         IN [bytes |-> <<(s[1] - B64Base) * B64Radix + (s[2] - B64Base)>>
                          \o rest.bytes,
             err |-> rest.err]

\* decodeAndUnzip drops the decoder's error and unzips what was decoded
decodeAndUnzip(encoded) == unzip(Base64Decode(encoded).bytes)

(* ------------------------------ JSON ----------------------------------- *)
\* Flow documents are the three bytes '{' n '}'; n names the flow.
LBrace == 123
RBrace == 125
JsonDoc(n) == <<LBrace, n, RBrace>>

\* json.Unmarshal(bytes, &defRep)
Unmarshal(bytes) ==
    IF Len(bytes) = 3 /\ bytes[1] = LBrace /\ bytes[3] = RBrace
      THEN [rep |-> [name |-> bytes[2]], err |-> ""]
      ELSE [rep |-> NoRep, err |-> "invalid character"]

(* ------------------------- definition model ---------------------------- *)
\* definition.NewDefinition(rep): the definition model rejects the flow
\* named RejectedFlow and turns any other representation into a new object.
RejectedFlow == 9

NewDefinition(flowRep, addr) ==
    IF flowRep.name = RejectedFlow
      THEN [def |-> NilDef, err |-> "invalid flow"]
      ELSE [def |-> [id |-> addr, rep |-> flowRep, mgr |-> NoMgr], err |-> ""]

\* def.SetLinkExprManager(factory.NewLinkExprManager(def))
SetLinkExprManager(def, factory) == [def EXCEPT !.mgr = factory]

\* variant: the definition is handed out without its expression manager
materializeFlowUnwired(flowRep, registered, addr) ==
    LET made == NewDefinition(flowRep, addr)
    IN IF made.err # ""
         THEN [def |-> NilDef, err |-> ErrBare("materialize")]
         ELSE [def |-> made.def, err |-> NoErr]

\* variant: the registered override is not consulted
materializeFlowDefaultOnly(flowRep, registered, addr) ==
    LET made == NewDefinition(flowRep, addr)
    IN IF made.err # ""
         THEN [def |-> NilDef, err |-> ErrBare("materialize")]
         ELSE [def |-> SetLinkExprManager(made.def, GosDefaultFactory),
               err |-> NoErr]

\* lines 126-147
materializeFlow(flowRep, registered, addr) ==
    LET made == NewDefinition(flowRep, addr)
        factory == IF registered = NoFactory THEN GosDefaultFactory
                                              ELSE registered
    IN IF made.err # ""
         THEN [def |-> NilDef, err |-> ErrBare("materialize")]
         ELSE [def |-> SetLinkExprManager(made.def, factory), err |-> NoErr]

(* --------------------- BasicRemoteFlowProvider ------------------------- *)
\* http.NewRequest fails when the URL does not parse; url.Parse rejects a
\* string whose first character is ':' (missing protocol scheme).
NewRequestFails(flowURI) == Len(flowURI) > 0 /\ flowURI[1] = ":"

Fetched(rep) == [rep |-> rep, err |-> NoErr, panicked |-> FALSE]
FetchErr(e) == [rep |-> NoRep, err |-> e, panicked |-> FALSE]
FetchPanic == [rep |-> NoRep, err |-> NoErr, panicked |-> TRUE]

ParseFlow(flowURI, flowDefBytes) ==
    LET parsed == Unmarshal(flowDefBytes)
    IN IF parsed.err # "" THEN FetchErr(ErrWith("parse", flowURI))
                          ELSE Fetched(parsed.rep)

\* the test at line 167: an index past the end of readBytes panics
SniffPanics(readBytes) ==
    \/ Len(readBytes) < 1
    \/ readBytes[1] = GzipID1 /\ Len(readBytes) < 3

\* variant: the two magic bytes are looked for at offsets 0 and 1
SniffGzipLeading(readBytes) == readBytes[1] = GzipID1 /\ readBytes[2] = GzipID2

\* line 167
SniffGzip(readBytes) == readBytes[1] = GzipID1 /\ readBytes[3] = GzipID2

BasicGetFlowFile(flowURI, env) ==
    IF env.readErr THEN FetchErr(ErrWith("read", flowURI))
    ELSE IF SniffPanics(env.bytes) THEN FetchPanic
    ELSE IF SniffGzip(env.bytes)
      THEN LET un == unzip(env.bytes)
           IN IF un.err # "" THEN FetchErr(ErrWith("decode", flowURI))
                             ELSE ParseFlow(flowURI, un.bytes)
    ELSE ParseFlow(flowURI, env.bytes)

BasicGetFlowHttp(flowURI, env) ==
    IF NewRequestFails(flowURI) THEN FetchPanic
    ELSE IF env.doErr THEN FetchErr(ErrWith("transport", flowURI))
    ELSE IF env.status >= StatusErrorFloor
      THEN FetchErr(ErrWith("status", flowURI))
    ELSE IF env.readErr THEN FetchErr(ErrWith("read", flowURI))
    ELSE IF ToLower(env.header) = <<"t", "r", "u", "e">>
      THEN LET un == decodeAndUnzip(env.bytes)
           IN IF un.err # "" THEN FetchErr(ErrWith("decode", flowURI))
                             ELSE ParseFlow(flowURI, un.bytes)
    ELSE ParseFlow(flowURI, env.bytes)

BasicGetFlow(flowURI, env) ==
    IF HasPrefix(flowURI, uriSchemeFile)
      THEN BasicGetFlowFile(flowURI, env)
      ELSE BasicGetFlowHttp(flowURI, env)

(* --------------------------- input sets -------------------------------- *)
UriFile == uriSchemeFile \o <<"f">>

\* resource ids: a plain one and one spelled like a remote URI
IdA == <<"a">>
IdB == UriFile
Ids == {IdA, IdB}

UriHttp == <<"h", "t", "t", "p", ":", "/", "/", "h">>
UriBad == <<":", "x">>
RemoteUris == {UriFile, UriHttp, UriBad}
ResUris == {uriSchemeRes \o id : id \in Ids}
Uris == RemoteUris \cup ResUris

FlowNames == {1, 2, RejectedFlow}
Docs == {JsonDoc(n) : n \in FlowNames}
Garbage == <<1>>

\* what the file system or the HTTP server answers to one fetch
FileBytes == Docs \cup {<<>>, <<GzipID1, GzipID2>>, Garbage,
                        <<GzipID1, 0, GzipID2>>, GzipBytes(JsonDoc(1))}
HttpBodies == Docs \cup {Garbage, Base64Encode(GzipBytes(JsonDoc(1))),
                         Base64Encode(GzipBytes(JsonDoc(2)))}
Headers == {<<>>, <<"t", "r", "u", "e">>, <<"T", "R", "U", "E">>,
            <<"T", "r", "u", "e">>, <<"f", "a", "l", "s", "e">>}
Statuses == {200, 404}

\* a file:// fetch sees a read error or the file's bytes
FileEnvs ==
    [readErr : {TRUE}, doErr : {FALSE}, status : {200}, header : {<<>>},
     bytes : {<<>>}]
    \cup
    [readErr : {FALSE}, doErr : {FALSE}, status : {200}, header : {<<>>},
     bytes : FileBytes]

\* any other fetch sees a transport error, or a status, then a read error
\* or the flow-compressed header and the body
HttpEnvs ==
    [readErr : {FALSE}, doErr : {TRUE}, status : {200}, header : {<<>>},
     bytes : {<<>>}]
    \cup
    [readErr : {TRUE}, doErr : {FALSE}, status : Statuses, header : {<<>>},
     bytes : {<<>>}]
    \cup
    [readErr : {FALSE}, doErr : {FALSE}, status : Statuses, header : Headers,
     bytes : HttpBodies]

Envs == FileEnvs \cup HttpEnvs

\* resource.Config values handed to LoadResource
Configs ==
    [ID : Ids, Compressed : {FALSE},
     Data : Docs \cup {Garbage}]
    \cup
    [ID : Ids, Compressed : {TRUE},
     Data : {Base64Encode(GzipBytes(JsonDoc(1))),
             Base64Encode(GzipBytes(JsonDoc(2))), Garbage}]
NoCfg == [ID |-> <<>>, Compressed |-> FALSE, Data |-> <<>>]

(* ------------------------------ state ---------------------------------- *)
VARIABLES
    resFlows,        \* rm.resFlows: map id -> definition
    remoteFlows,     \* rm.remoteFlows: map uri -> definition
    remoteFlowsMade, \* FALSE while rm.remoteFlows is still the nil map
    rfMu,            \* rm.rfMu: 0 when free, else the call holding it
    exprFactory,     \* the registered LinkExprManagerFactory, or NoFactory
    inflight,        \* GetFlow calls in progress: [cid, uri, stage]
    last,            \* the most recent call that ended and what it gave back
    fetches,         \* per uri: number of flowProvider.GetFlow invocations
    nextDef,         \* address of the next definition object allocated
    calls,           \* number of calls made so far
    crashed,         \* TRUE once an unrecovered panic has ended the process
    probe            \* one application of a function of the provider

vars == <<resFlows, remoteFlows, remoteFlowsMade, rfMu, exprFactory,
          inflight, last, fetches, nextDef, calls, crashed, probe>>

NoCall == [op |-> "none", key |-> <<>>, val |-> NilDef,
           err |-> NoErr, outcome |-> "none"]

\* a call that returned (val, err)
Returned(op, key, val, err) ==
    [op |-> op, key |-> key, val |-> val, err |-> err, outcome |-> "returned"]

\* a call that ended in a run-time panic
Panicked(op, key) ==
    [op |-> op, key |-> key, val |-> NilDef, err |-> NoErr,
     outcome |-> "panicked"]

\* m[key] of a Go map of pointers: nil when the key is absent
MapGet(m, key) == IF key \in DOMAIN m THEN m[key] ELSE NilDef

\* variant: an existing entry is kept
MapPutIfAbsent(m, key, value) ==
    [k \in DOMAIN m \cup {key} |-> IF k \in DOMAIN m THEN m[k] ELSE value]

\* variant: the map is replaced by one holding the new entry only
MapPutClobber(m, key, value) == [k \in {key} |-> value]

\* m[key] = value
MapPut(m, key, value) ==
    [k \in DOMAIN m \cup {key} |-> IF k = key THEN value ELSE m[k]]

EmptyMap == [k \in {} |-> NilDef]

\* probe records one application of a function of the default provider: the
\* function, its arguments and what it returned
NoEnv == [readErr |-> FALSE, doErr |-> FALSE, status |-> 0, header |-> <<>>,
          bytes |-> <<>>]
NoBytes == [bytes |-> <<>>, err |-> ""]
NoProbe == [fn |-> "none", uri |-> <<>>, env |-> NoEnv, res |-> FetchErr(NoErr),
            input |-> <<>>, dec |-> NoBytes]

\* NewFlowManager(nil): the manager gets the BasicRemoteFlowProvider
Init ==
    /\ resFlows = EmptyMap
    /\ remoteFlows = EmptyMap
    /\ remoteFlowsMade = FALSE
    /\ rfMu = 0
    /\ exprFactory = NoFactory
    /\ inflight = {}
    /\ last = NoCall
    /\ fetches = [u \in Uris |-> 0]
    /\ nextDef = 1
    /\ calls = 0
    /\ crashed = FALSE
    /\ probe = NoProbe

\* the process is alive: no panic has gone unrecovered
Running == ~crashed

\* a caller is free to start a call
CanCall == Running /\ calls < MaxCalls /\ Cardinality(inflight) < NumProcs

(* ---------------------------- LoadResource ----------------------------- *)
\* lines 61-83: the definition LoadResource builds from config, or its error
LoadResult(config, registered, addr) ==
    LET dec == IF config.Compressed THEN decodeAndUnzip(config.Data)
                                    ELSE [bytes |-> config.Data, err |-> ""]
        parsed == Unmarshal(dec.bytes)
    IN IF dec.err # ""
         THEN [def |-> NilDef, err |-> ErrWith("decode", config.ID)]
       ELSE IF parsed.err # ""
         THEN [def |-> NilDef, err |-> ErrWith("parse", config.ID)]
       ELSE materializeFlow(parsed.rep, registered, addr)

\* variant: the entry is written whether or not the load failed
StoreLoadedAlways(m, id, r) == MapPut(m, id, r.def)

\* lines 66-85: every error returns before the store at line 85
StoreLoaded(m, id, r) ==
    IF r.err = NoErr THEN MapPut(m, id, r.def) ELSE m

LoadResource(config) ==
    /\ CanCall
    /\ calls' = calls + 1
    /\ LET r == LoadResult(config, exprFactory, nextDef)
       IN /\ resFlows' = StoreLoaded(resFlows, config.ID, r)
          /\ nextDef' = IF r.err = NoErr THEN nextDef + 1 ELSE nextDef
          /\ last' = Returned("LoadResource", config.ID, NilDef, r.err)
    /\ UNCHANGED <<remoteFlows, remoteFlowsMade, rfMu, exprFactory, inflight,
                   fetches, crashed, probe>>

(* ----------------------------- GetResource ----------------------------- *)
\* variant: an id missing from resFlows is looked up in remoteFlows
GetResourceEitherCache(id) ==
    IF id \in DOMAIN resFlows THEN resFlows[id] ELSE MapGet(remoteFlows, id)

\* lines 89-91
GetResource(id) == MapGet(resFlows, id)

GetResourceCall(id) ==
    /\ CanCall
    /\ calls' = calls + 1
    /\ last' = Returned("GetResource", id, GetResource(id), NoErr)
    /\ UNCHANGED <<resFlows, remoteFlows, remoteFlowsMade, rfMu, exprFactory,
                   inflight, fetches, nextDef, crashed, probe>>

(* ------------------------------- GetFlow ------------------------------- *)
\* variant: the whole uri is looked up
GetFlowResWholeUri(u) == MapGet(resFlows, u)

\* lines 95-97: the res:// branch
GetFlowRes(u) == MapGet(resFlows, SliceFrom(u, ResPrefixLen))

\* lines 95-99: a res:// uri is answered at once, any other uri goes on to
\* take the lock
GetFlowCall(u) ==
    /\ CanCall
    /\ calls' = calls + 1
    /\ IF HasPrefix(u, uriSchemeRes)
         THEN /\ last' = Returned("GetFlow", u, GetFlowRes(u), NoErr)
              /\ UNCHANGED inflight
         ELSE /\ inflight' = inflight \cup
                    {[cid |-> calls + 1, uri |-> u, stage |-> "lock"]}
              /\ UNCHANGED last
    /\ UNCHANGED <<resFlows, remoteFlows, remoteFlowsMade, rfMu, exprFactory,
                   fetches, nextDef, crashed, probe>>

\* variant: the lookup always misses
CachedNever(m, key) == FALSE

\* line 106: exists
Cached(m, key) == key \in DOMAIN m

\* variant: Lock() does not wait
LockFreeAlways(mu) == TRUE

\* rm.rfMu.Lock() goes through only on a free mutex
LockFree(mu) == mu = 0

\* lines 99-110 and 123: take the lock, make the map on first use, look the
\* uri up.  On a hit the entry is returned and the deferred Unlock runs; on
\* a miss rm.flowProvider.GetFlow(uri) is called with the lock held.
Acquire(c) ==
    /\ Running
    /\ c.stage = "lock"
    /\ LockFree(rfMu)
    /\ remoteFlowsMade' = TRUE
    /\ IF Cached(remoteFlows, c.uri)
         THEN /\ inflight' = inflight \ {c}
              /\ last' = Returned("GetFlow", c.uri, remoteFlows[c.uri], NoErr)
              /\ UNCHANGED <<rfMu, fetches>>
         ELSE /\ inflight' = (inflight \ {c}) \cup {[c EXCEPT !.stage = "fetching"]}
              /\ rfMu' = c.cid
              /\ fetches' = [fetches EXCEPT ![c.uri] = @ + 1]
              /\ UNCHANGED last
    /\ UNCHANGED <<resFlows, remoteFlows, exprFactory, nextDef, calls, crashed,
                   probe>>

\* the results rm.flowProvider.GetFlow(u) can produce
ProviderTable ==
    [u \in RemoteUris |->
        {BasicGetFlow(u, env) :
            env \in IF HasPrefix(u, uriSchemeFile) THEN FileEnvs ELSE HttpEnvs}]

ProviderResults(u) == ProviderTable[u]

\* lines 110-118: flow and err once the provider has answered with r
FetchOutcome(r, registered, addr) ==
    IF r.err # NoErr THEN [def |-> NilDef, err |-> r.err]
                     ELSE materializeFlow(r.rep, registered, addr)

\* variant: the outcome is cached even when it is an error
StoreFetchedAlways(m, key, out) == MapPut(m, key, out.def)

\* lines 111-121: only a materialized flow is cached
StoreFetched(m, key, out) ==
    IF out.err = NoErr THEN MapPut(m, key, out.def) ELSE m

\* line 100: defer rm.rfMu.Unlock()
Unlock(mu) == IF mu # 0 THEN 0 ELSE mu

\* lines 110-123: the provider answers.  An error ends the call; a panic
\* unwinds through the deferred Unlock and, unless the caller recovers it,
\* ends the process; a representation is materialized and, when that
\* succeeds, cached and returned.  The deferred Unlock runs on every path.
ProviderReturn(c) ==
    /\ Running
    /\ c.stage = "fetching"
    /\ inflight' = inflight \ {c}
    /\ rfMu' = Unlock(rfMu)
    /\ \E r \in ProviderResults(c.uri) :
         IF r.panicked
           THEN /\ last' = Panicked("GetFlow", c.uri)
                /\ \E recovered \in BOOLEAN : crashed' = ~recovered
                /\ UNCHANGED <<remoteFlows, nextDef>>
           ELSE LET out == FetchOutcome(r, exprFactory, nextDef)
                IN /\ remoteFlows' = StoreFetched(remoteFlows, c.uri, out)
                   /\ nextDef' = IF out.err = NoErr THEN nextDef + 1
                                                    ELSE nextDef
                   /\ last' = Returned("GetFlow", c.uri, out.def, out.err)
                   /\ UNCHANGED crashed
    /\ UNCHANGED <<resFlows, remoteFlowsMade, exprFactory, fetches, calls,
                   probe>>

(* ------------------- expression-manager factory override --------------- *)
Factories == {CustomFactory}

\* definition.SetLinkExprManagerFactory(factory)
SetLinkExprManagerFactory(f) ==
    /\ Running
    /\ exprFactory # f
    /\ exprFactory' = f
    /\ UNCHANGED <<resFlows, remoteFlows, remoteFlowsMade, rfMu, inflight,
                   last, fetches, nextDef, calls, crashed, probe>>

(* ---------------- the provider's functions applied alone --------------- *)
\* gzip streams handed to unzip: every prefix of a compressed document, the
\* empty stream and the whole stream among them
Prefixes(s) == {SubSeq(s, 1, n) : n \in 0..Len(s)}
Streams == UNION {Prefixes(GzipBytes(d)) : d \in Docs}

\* BasicRemoteFlowProvider.GetFlow(u) in the environment env
ProbeGetFlow(u, env) ==
    /\ probe' = [NoProbe EXCEPT !.fn = "GetFlow", !.uri = u, !.env = env,
                                !.res = BasicGetFlow(u, env)]
    /\ UNCHANGED <<resFlows, remoteFlows, remoteFlowsMade, rfMu, exprFactory,
                   inflight, last, fetches, nextDef, calls, crashed>>

\* unzip(stream)
ProbeUnzip(stream) ==
    /\ probe' = [NoProbe EXCEPT !.fn = "unzip", !.input = stream,
                                !.dec = unzip(stream)]
    /\ UNCHANGED <<resFlows, remoteFlows, remoteFlowsMade, rfMu, exprFactory,
                   inflight, last, fetches, nextDef, calls, crashed>>

\* decodeAndUnzip(encoded)
ProbeDecodeAndUnzip(encoded) ==
    /\ probe' = [NoProbe EXCEPT !.fn = "decodeAndUnzip", !.input = encoded,
                                !.dec = decodeAndUnzip(encoded)]
    /\ UNCHANGED <<resFlows, remoteFlows, remoteFlowsMade, rfMu, exprFactory,
                   inflight, last, fetches, nextDef, calls, crashed>>

NextFetch ==
    \/ \E env \in FileEnvs : ProbeGetFlow(UriFile, env)
    \/ \E u \in RemoteUris \ {UriFile} : \E env \in HttpEnvs :
           ProbeGetFlow(u, env)
    \/ \E stream \in Streams : ProbeUnzip(stream)
    \/ \E stream \in Streams : ProbeDecodeAndUnzip(Base64Encode(stream))

\* the manager is left as constructed; only the provider's functions run
SpecFetch == Init /\ [][NextFetch]_vars

(* --------------------------- specification ----------------------------- *)
Next ==
    \/ \E config \in Configs : LoadResource(config)
    \/ \E id \in Ids : GetResourceCall(id)
    \/ \E u \in Uris : GetFlowCall(u)
    \/ \E c \in inflight : Acquire(c)
    \/ \E c \in inflight : ProviderReturn(c)
    \/ \E f \in Factories : SetLinkExprManagerFactory(f)

Spec == Init /\ [][Next]_vars

\* GetFlow under the scheduling it relies on: a call to the provider comes
\* back (no fetch hangs) and sync.Mutex hands the lock to each waiting call
\* in the end
FairSpec ==
    /\ Spec
    /\ WF_vars(\E c \in inflight : ProviderReturn(c))
    /\ \A n \in 1..MaxCalls :
           SF_vars(\E c \in inflight : c.cid = n /\ Acquire(c))

TypeOK ==
    /\ nextDef \in 1..(MaxCalls + 1)
    /\ calls \in 0..MaxCalls
    /\ \A u \in Uris : fetches[u] \in 0..MaxCalls
    /\ DOMAIN resFlows \subseteq Ids
    /\ DOMAIN remoteFlows \subseteq RemoteUris
    /\ Cardinality(inflight) <= NumProcs

(* ------------------------------ claims --------------------------------- *)
Fetching == {c \in inflight : c.stage = "fetching"}
Waiting == {c \in inflight : c.stage = "lock"}
ResUri(id) == uriSchemeRes \o id
ValidFlowNames == FlowNames \ {RejectedFlow}

\* the call c, in flight before the step, ends in this step
Ends(c) == c \in inflight /\ c \notin inflight'

\* C1 as stated: the provider is invoked at most once per URI over the
\* whole life of the manager.
C1_AtMostOneFetchEver == \A u \in RemoteUris : fetches[u] <= 1

\* C1 amended: fetches of one URI never overlap, the provider is invoked for
\* a URI only while the URI is not cached, so once a fetch has led to a
\* cached definition the URI is never fetched again (a failed fetch is
\* repeated by the next caller); every caller that gets a definition for
\* the URI gets the cached instance, which never changes.
C1_OneFetchOnceCached ==
    /\ [](\A u \in RemoteUris :
            Cardinality({c \in Fetching : c.uri = u}) <= 1)
    /\ [](last.op = "GetFlow" /\ last.key \in RemoteUris
            /\ last.outcome = "returned" /\ last.err = NoErr
          => /\ last.key \in DOMAIN remoteFlows
             /\ last.val = remoteFlows[last.key])
    /\ [][\A u \in RemoteUris :
            u \in DOMAIN remoteFlows
            => /\ fetches'[u] = fetches[u]
               /\ u \in DOMAIN remoteFlows'
               /\ remoteFlows'[u] = remoteFlows[u]]_vars

\* two callers asked for the same URI, the first is still waiting for the
\* lock while the second has fetched and cached it: one fetch so far
C1_Witness ==
    \E d \in Waiting :
        /\ d.cid = 1
        /\ calls = 2
        /\ d.uri \in DOMAIN remoteFlows
        /\ fetches[d.uri] = 1
        /\ last = Returned("GetFlow", d.uri, remoteFlows[d.uri], NoErr)

\* C2: GetFlow of a res:// uri never reaches the provider and never returns
\* an error, whether or not the id is preloaded; it answers with the
\* preloaded entry or nil.
C2_ResNeverFetches ==
    /\ [](last.op = "GetFlow" /\ last.key \in ResUris
          => last.outcome = "returned" /\ last.err = NoErr)
    /\ [](\A u \in ResUris :
            fetches[u] = 0 /\ \A c \in inflight : c.uri # u)
    /\ [][\A id \in Ids :
            (calls' = calls + 1 /\ GetFlowCall(ResUri(id)))
            => last' = Returned("GetFlow", ResUri(id),
                                MapGet(resFlows, id), NoErr)]_vars

C2_Witness ==
    /\ IdB \notin DOMAIN resFlows
    /\ IdA \in DOMAIN resFlows
    /\ last = Returned("GetFlow", ResUri(IdB), NilDef, NoErr)

\* C3: at most one call is between Lock and Unlock, and while a provider
\* fetch is in flight no other remote GetFlow call gets past the lock, to
\* read the cache or to return, not even one whose URI is already cached.
C3_GlobalLock ==
    /\ [](/\ Cardinality(Fetching) <= 1
          /\ \A c \in Fetching : rfMu = c.cid)
    /\ [][Fetching # {}
          => /\ \A d \in Waiting : d \in inflight'
             /\ \A d \in inflight : Ends(d) => d \in Fetching]_vars

C3_Witness ==
    \E c \in Fetching, d \in Waiting :
        /\ d.uri # c.uri
        /\ d.uri \in DOMAIN remoteFlows
        /\ c.uri \notin DOMAIN remoteFlows

\* C4: a remote GetFlow whose fetch or materialization fails returns the
\* error and nil, and leaves the remote cache as it was, without an entry
\* for the URI; a later GetFlow for a URI that is not cached calls the
\* provider again, and a fetch that succeeds caches what it returns.
C4_FailureNotCached ==
    [][\A c \in inflight :
        /\ (c.stage = "fetching" /\ Ends(c)
              /\ last'.outcome = "returned" /\ last'.err # NoErr)
           => /\ last'.op = "GetFlow"
              /\ last'.key = c.uri
              /\ last'.val = NilDef
              /\ remoteFlows' = remoteFlows
              /\ c.uri \notin DOMAIN remoteFlows'
        /\ (c.stage = "lock" /\ Ends(c) /\ c.uri \notin DOMAIN remoteFlows)
           => /\ fetches'[c.uri] = fetches[c.uri] + 1
              /\ [c EXCEPT !.stage = "fetching"] \in inflight'
        /\ (c.stage = "fetching" /\ Ends(c)
              /\ last'.outcome = "returned" /\ last'.err = NoErr)
           => /\ c.uri \in DOMAIN remoteFlows'
              /\ last'.val # NilDef
              /\ remoteFlows'[c.uri] = last'.val]_vars

\* a first fetch of the URI failed, the second one succeeded and is cached
C4_Witness ==
    \E u \in RemoteUris :
        /\ fetches[u] = 2
        /\ u \in DOMAIN remoteFlows
        /\ inflight = {}
        /\ last = Returned("GetFlow", u, remoteFlows[u], NoErr)

\* C5: a LoadResource with a valid payload, plain or compressed, succeeds
\* and puts a new definition built from that payload under the id, whatever
\* was there before; GetResource returns the entry of the id, and that
\* entry changes through a successful LoadResource of the id only.
C5_ReloadOverwrites ==
    /\ [][(calls' = calls + 1 /\ last'.op = "LoadResource")
          => \A id \in Ids, n \in ValidFlowNames :
               \A config \in {[ID |-> id, Compressed |-> FALSE,
                               Data |-> JsonDoc(n)],
                              [ID |-> id, Compressed |-> TRUE,
                               Data |-> Base64Encode(GzipBytes(JsonDoc(n)))]} :
                  (last'.key = id /\ LoadResource(config))
                  => /\ last'.err = NoErr
                     /\ id \in DOMAIN resFlows'
                     /\ resFlows'[id].id = nextDef
                     /\ resFlows'[id].rep = [name |-> n]]_vars
    /\ [](last.op = "GetResource" => last.val = MapGet(resFlows, last.key))
    /\ [][\A id \in Ids :
            MapGet(resFlows', id) # MapGet(resFlows, id)
            => last' = Returned("LoadResource", id, NilDef, NoErr)]_vars

\* the id was loaded twice and GetResource returns the second definition
C5_Witness ==
    /\ calls = 3
    /\ DOMAIN resFlows = {IdA}
    /\ DOMAIN remoteFlows = {}
    /\ resFlows[IdA].id = 2
    /\ resFlows[IdA].rep = [name |-> 2]
    /\ last = Returned("GetResource", IdA, resFlows[IdA], NoErr)

\* C6: for every id, GetFlow("res://" + id) gives the very definition that
\* GetResource(id) gives, nil when the id was never loaded.
C6_ResSameAsGetResource ==
    \A id \in Ids :
        /\ GetFlowRes(ResUri(id)) = GetResource(id)
        /\ last.op = "GetFlow" /\ last.key = ResUri(id)
           => last.val = GetResource(id)

C6_Witness ==
    /\ IdA \in DOMAIN resFlows
    /\ last = Returned("GetFlow", ResUri(IdA), resFlows[IdA], NoErr)
    /\ last.val # NilDef

\* C7 as stated: in both caches a key, once present, keeps its value.
C7_ImmutableAfterInsert ==
    [][/\ \A id \in DOMAIN resFlows :
            id \in DOMAIN resFlows' /\ resFlows'[id] = resFlows[id]
       /\ \A u \in DOMAIN remoteFlows :
            u \in DOMAIN remoteFlows' /\ remoteFlows'[u] = remoteFlows[u]]_vars

\* C7 amended: a key of remoteFlows, once present, keeps its value; a key of
\* resFlows, once present, stays present and its value is replaced only by
\* a successful LoadResource for that id.
C7_RemoteImmutableResReloadable ==
    [][/\ \A id \in DOMAIN resFlows :
            /\ id \in DOMAIN resFlows'
            /\ resFlows'[id] # resFlows[id]
               => /\ last' = Returned("LoadResource", id, NilDef, NoErr)
                  /\ calls' = calls + 1
                  /\ resFlows'[id].id = nextDef
       /\ \A u \in DOMAIN remoteFlows :
            u \in DOMAIN remoteFlows' /\ remoteFlows'[u] = remoteFlows[u]]_vars

\* the URI cached first still maps to the first definition after an id
\* has been loaded and reloaded; the id maps to the reloaded definition
C7_Witness ==
    \E u \in DOMAIN remoteFlows :
        /\ remoteFlows[u].id = 1
        /\ DOMAIN resFlows = {IdA}
        /\ DOMAIN remoteFlows = {u}
        /\ resFlows[IdA].id = 3

\* C8: every entry of resFlows and of remoteFlows, and every definition a
\* call returns, is one NewDefinition accepted and that has its link
\* expression manager attached.
Materialized(def) ==
    /\ def.id >= 1
    /\ def.rep.name \in ValidFlowNames
    /\ def.mgr \in {GosDefaultFactory} \cup Factories

C8_OnlyMaterialized ==
    /\ \A id \in DOMAIN resFlows : Materialized(resFlows[id])
    /\ \A u \in DOMAIN remoteFlows : Materialized(remoteFlows[u])
    /\ last.val # NilDef => Materialized(last.val)

C8_Witness ==
    /\ resFlows # EmptyMap
    /\ remoteFlows # EmptyMap
    /\ last.val # NilDef

\* C9 as stated: every call ends by returning a result or an error, none
\* ends in a panic.
C9_NoAbnormalEnd == last.outcome \in {"none", "returned"}

\* C10 as stated: every error LoadResource returns carries the resource id
\* and every error GetFlow returns for a remote URI carries the URI.
C10_ErrorsCarryKey ==
    (last.outcome = "returned" /\ last.err # NoErr) => last.err.ctx = <<last.key>>

(* ------------- claims about the provider's functions alone ------------- *)
\* the header value is "true" in some mix of upper and lower case
EqualFoldTrue(h) ==
    /\ Len(h) = 4
    /\ h[1] \in {"t", "T"} /\ h[2] \in {"r", "R"}
    /\ h[3] \in {"u", "U"} /\ h[4] \in {"e", "E"}

\* the probe is an HTTP fetch that got as far as the response body
HttpBodyRead ==
    /\ probe.fn = "GetFlow"
    /\ probe.uri = UriHttp
    /\ ~probe.env.doErr /\ ~probe.env.readErr
    /\ probe.env.status < StatusErrorFloor

\* what the provider returns for flow bytes that went through decompression
ViaDecompression(flowURI, un) ==
    IF un.err # "" THEN FetchErr(ErrWith("decode", flowURI))
                   ELSE ParseFlow(flowURI, un.bytes)

\* C11: on the HTTP branch the response body is base64-decoded and
\* gzip-decompressed exactly when the flow-compressed header equals "true"
\* ignoring case; for "false", an absent or empty header or any other value
\* the body is parsed as it is.
C11_CompressedHeaderFoldsCase ==
    HttpBodyRead =>
        probe.res = IF EqualFoldTrue(probe.env.header)
                      THEN ViaDecompression(probe.uri,
                                            decodeAndUnzip(probe.env.bytes))
                      ELSE ParseFlow(probe.uri, probe.env.bytes)

\* a compressed body sent with the header "TRUE" or "True" was decoded,
\* decompressed and parsed into its flow
C11_Witness ==
    /\ HttpBodyRead
    /\ probe.env.bytes = Base64Encode(GzipBytes(JsonDoc(1)))
    /\ \/ /\ probe.env.header = <<"T", "R", "U", "E">>
          /\ probe.res = Fetched([name |-> 1])
       \/ /\ probe.env.header = <<"T", "r", "u", "e">>
          /\ probe.res = Fetched([name |-> 1])

\* the probe is a file:// fetch whose file was read
FileRead ==
    /\ probe.fn = "GetFlow"
    /\ probe.uri = UriFile
    /\ ~probe.env.readErr

\* the byte at the given offset of bytes is b
ByteAt(bytes, offset, b) == Len(bytes) > offset /\ bytes[offset + 1] = b

\* the bytes have an offset 0 and an offset 2 and do not hold 1f and 8b there
OtherAt0Or2(bytes) ==
    \/ Len(bytes) > 0 /\ ~ByteAt(bytes, 0, GzipID1)
    \/ Len(bytes) > 2 /\ ~ByteAt(bytes, 2, GzipID2)

\* C12: on the file:// branch the content is gzip-decompressed exactly when
\* its byte at offset 0 is 0x1F and its byte at offset 2 is 0x8B; a file with
\* 0x1F at offset 0 and another byte at offset 2, whatever its byte at offset
\* 1, is parsed unchanged as plain JSON; a failed decompression is returned
\* as an error carrying the URI.
C12_FileSniffedAtOffsets0And2 ==
    FileRead =>
        LET b == probe.env.bytes
            sniffed == ByteAt(b, 0, GzipID1) /\ ByteAt(b, 2, GzipID2)
        IN /\ sniffed => probe.res = ViaDecompression(probe.uri, unzip(b))
           /\ sniffed /\ unzip(b).err # ""
                  => probe.res.err = ErrWith("decode", probe.uri)
           /\ OtherAt0Or2(b) => probe.res = ParseFlow(probe.uri, b)
           /\ ~sniffed => probe.res.err.kind # "decode"

\* the file 1f 00 8b went to decompression and came back as a decode error
\* carrying the URI
C12_Witness ==
    /\ FileRead
    /\ probe.env.bytes = <<GzipID1, 0, GzipID2>>
    /\ probe.res = FetchErr(ErrWith("decode", UriFile))

\* the gzip streams cut short of the compressed document d, the empty one
\* among them
Truncated(d) == Prefixes(GzipBytes(d)) \ {GzipBytes(d)}

\* C13: for every canonical JSON document d of the bounded set Docs,
\* unzip(gzip(d)) = d and decodeAndUnzip(base64(gzip(d))) = d byte for byte;
\* an empty or truncated gzip stream yields an error, never an empty result.
C13_RoundTripOrError ==
    \A d \in Docs :
        /\ probe.fn = "unzip" /\ probe.input = GzipBytes(d)
               => probe.dec = [bytes |-> d, err |-> ""]
        /\ probe.fn = "decodeAndUnzip"
             /\ probe.input = Base64Encode(GzipBytes(d))
               => probe.dec = [bytes |-> d, err |-> ""]
        /\ probe.fn = "unzip" /\ probe.input \in Truncated(d)
               => probe.dec.err # ""
        /\ probe.fn = "decodeAndUnzip"
             /\ probe.input \in {Base64Encode(s) : s \in Truncated(d)}
               => probe.dec.err # ""

\* decodeAndUnzip gave back the document of flow 2 from its encoded stream
C13_Witness ==
    /\ probe.fn = "decodeAndUnzip"
    /\ probe.input = Base64Encode(GzipBytes(JsonDoc(2)))
    /\ probe.dec = [bytes |-> JsonDoc(2), err |-> ""]

(* -------------------- further claims about the manager ----------------- *)
\* the last call to end was a GetFlow for a remote URI that returned a flow
RemoteSuccess ==
    /\ last.op = "GetFlow" /\ last.outcome = "returned"
    /\ last.key \in RemoteUris
    /\ last.err = NoErr

\* C14: once a GetFlow call for a remote URI has returned successfully,
\* every later GetFlow call for that URI returns the same definition
\* instance without invoking the provider or the materializer, whatever
\* fetches of other URIs (failed or successful) and LoadResource calls come
\* in between: a successful return leaves the URI cached, no step of any
\* operation changes or refetches a cached URI, and a call that ends on a
\* cached URI returns the cached instance and allocates nothing.
C14_CachedServedEverAfter ==
    /\ [](RemoteSuccess => /\ last.key \in DOMAIN remoteFlows
                           /\ remoteFlows[last.key] = last.val)
    /\ [][\A u \in DOMAIN remoteFlows :
              /\ u \in DOMAIN remoteFlows'
              /\ remoteFlows'[u] = remoteFlows[u]
              /\ fetches'[u] = fetches[u]]_vars
    /\ [][\A c \in inflight :
              c.uri \in DOMAIN remoteFlows /\ Ends(c)
                  => /\ last' = Returned("GetFlow", c.uri,
                                         remoteFlows[c.uri], NoErr)
                     /\ nextDef' = nextDef]_vars

\* UriHttp was fetched and cached (object 1), LoadResource then stored object
\* 2, and the third call, a GetFlow for UriHttp, returned object 1 without a
\* second fetch
C14_Witness ==
    /\ calls = 3 /\ inflight = {}
    /\ UriHttp \in DOMAIN remoteFlows /\ remoteFlows[UriHttp].id = 1
    /\ IdA \in DOMAIN resFlows /\ resFlows[IdA].id = 2
    /\ last = Returned("GetFlow", UriHttp, remoteFlows[UriHttp], NoErr)
    /\ fetches[UriHttp] = 1

\* the factory in force while the override is set to registered
FactoryInForce(registered) ==
    IF registered = NoFactory THEN GosDefaultFactory ELSE registered

\* the definitions held by the two caches
CachedDefs(res, remote) ==
    {res[id] : id \in DOMAIN res} \cup {remote[u] : u \in DOMAIN remote}

\* C15: materializeFlow resolves the expression-manager factory when it
\* materializes: the definition a step creates carries the manager of the
\* override registered at that moment, or of the built-in default when none
\* is registered; a cached definition keeps its manager, and registering or
\* changing the override touches no cache.
C15_FactoryResolvedAtMaterialization ==
    /\ [][nextDef' = nextDef + 1
            => \E def \in CachedDefs(resFlows', remoteFlows') :
                   /\ def.id = nextDef
                   /\ def.mgr = FactoryInForce(exprFactory)]_vars
    /\ [][\A old \in CachedDefs(resFlows, remoteFlows) :
            \A new \in CachedDefs(resFlows', remoteFlows') :
                new.id = old.id => new.mgr = old.mgr]_vars
    /\ [][exprFactory' # exprFactory
            => resFlows' = resFlows /\ remoteFlows' = remoteFlows]_vars

\* a flow cached before the override was registered still has the default
\* manager, one loaded after it has the override's manager
C15_Witness ==
    /\ exprFactory = CustomFactory
    /\ \E u \in DOMAIN remoteFlows : remoteFlows[u].mgr = GosDefaultFactory
    /\ \E id \in DOMAIN resFlows : resFlows[id].mgr = CustomFactory

\* the step is a LoadResource call that returned an error
LoadFails ==
    /\ calls' = calls + 1
    /\ last'.op = "LoadResource"
    /\ last'.err # NoErr

\* C16: when LoadResource fails, with a decode, parse or materialization
\* error, the preloaded map is left exactly as it was: GetResource still
\* returns the entry stored before under that id, and an id that had no
\* entry has none.
C16_FailedLoadLeavesPreloaded ==
    [][LoadFails => /\ resFlows' = resFlows
                    /\ \A id \in Ids : GetResource(id)' = GetResource(id)
                    /\ nextDef' = nextDef]_vars

\* after IdA was loaded (object 1), a second LoadResource for IdA failed in
\* materialization: IdA still holds object 1 and no other id has an entry
C16_Witness ==
    /\ last.op = "LoadResource" /\ last.key = IdA
    /\ last.err.kind = "materialize"
    /\ DOMAIN resFlows = {IdA}
    /\ resFlows[IdA].id = 1

\* the call numbered n is a remote GetFlow still in progress
InProgress(n) == \E c \in inflight : c.cid = n

\* C17 as stated: the remote-cache lock is released on every exit path of
\* GetFlow (cache hit, successful fetch, fetch error, materialization
\* error), so it is free whenever no remote GetFlow is in progress; and when
\* every provider fetch terminates and lock acquisition is fair, every
\* GetFlow call in progress eventually returns.
C17_LockReleasedAllReturn ==
    /\ [](inflight = {} => rfMu = 0)
    /\ [](rfMu # 0 <=> \E c \in Fetching : c.cid = rfMu)
    /\ [][\A n \in 1..MaxCalls :
              InProgress(n) /\ ~InProgress(n)' => rfMu' \notin {n}]_vars
    /\ \A n \in 1..MaxCalls :
           InProgress(n) ~> (~InProgress(n) /\ last.outcome = "returned")

\* the step is a GetResource call (a call that starts and is not in flight
\* afterwards)
ReadsById ==
    /\ calls' = calls + 1 /\ inflight' = inflight
    /\ last'.op = "GetResource"

\* the step is a GetFlow call that was answered at once
ReadsByResUri ==
    /\ calls' = calls + 1 /\ inflight' = inflight
    /\ last'.op = "GetFlow"

\* C18: GetFlow("res://...") and GetResource never acquire the remote-cache
\* lock: whoever holds the lock, and for however long, a caller can make
\* them, and the call completes in its one step, leaves the lock and the
\* calls in flight as they are, and returns the preloaded entry current at
\* that moment (nil when there is none).
C18_ReadsBypassLock ==
    /\ [](CanCall => \A id \in Ids : /\ ENABLED GetResourceCall(id)
                                     /\ ENABLED GetFlowCall(ResUri(id)))
    /\ [][ReadsById
            => /\ last' = Returned("GetResource", last'.key,
                                   MapGet(resFlows, last'.key), NoErr)
               /\ rfMu' = rfMu]_vars
    /\ [][ReadsByResUri
            => /\ \E id \in Ids :
                   last' = Returned("GetFlow", ResUri(id),
                                    MapGet(resFlows, id), NoErr)
               /\ rfMu' = rfMu]_vars

\* while a fetch holds the lock, the last call to end is a GetFlow for
\* res://a that returned the entry preloaded under a
C18_Witness ==
    /\ Fetching # {} /\ rfMu # 0
    /\ IdA \in DOMAIN resFlows
    /\ last = Returned("GetFlow", ResUri(IdA), resFlows[IdA], NoErr)

\* C19: the two caches are disjoint in effect.  The preloaded map changes
\* only in a LoadResource step, which leaves the remote cache alone; the
\* remote cache changes only when a remote GetFlow stores what it fetched,
\* which leaves the preloaded map alone; GetResource and GetFlow("res://...")
\* change neither.  No definition is in both caches, even under an id that
\* is spelled like a cached URI: a remote GetFlow never returns a preloaded
\* definition and GetResource never returns a remotely cached one.
C19_CachesDisjoint ==
    /\ [][resFlows' # resFlows
            => /\ calls' = calls + 1 /\ last'.op = "LoadResource"
               /\ remoteFlows' = remoteFlows /\ inflight' = inflight]_vars
    /\ [][remoteFlows' # remoteFlows
            => /\ resFlows' = resFlows
               /\ \E c \in Fetching :
                      /\ c \notin inflight'
                      /\ remoteFlows' = MapPut(remoteFlows, c.uri, last'.val)
                      /\ last'.key = c.uri]_vars
    /\ [][ReadsById \/ ReadsByResUri
            => resFlows' = resFlows /\ remoteFlows' = remoteFlows]_vars
    /\ [](CachedDefs(resFlows, EmptyMap) \cap CachedDefs(EmptyMap, remoteFlows)
             = {})
    /\ [](RemoteSuccess => last.val \notin CachedDefs(resFlows, EmptyMap))
    /\ [](last.op = "GetResource"
             => last.val \notin CachedDefs(EmptyMap, remoteFlows))

\* file://f is both a preloaded id and a cached URI, with different
\* definitions, and GetResource("file://f") returned the preloaded one
C19_Witness ==
    /\ UriFile \in DOMAIN resFlows /\ UriFile \in DOMAIN remoteFlows
    /\ resFlows[UriFile] # remoteFlows[UriFile]
    /\ last = Returned("GetResource", UriFile, resFlows[UriFile], NoErr)
====
